---- MODULE Spec2Model ----
(***************************************************************************)
(* Model of the technical-indicator engine of tradepro-scanner             *)
(* (src/lib/indicators.ts): calculateTrueRange, calculateATR and           *)
(* calculateSupertrend, run on a bar sequence: calculateATR as one step,   *)
(* the loop of calculateSupertrend bar by bar; and of the orchestrator     *)
(* calculateSupertrendForTimeframes of the stocks route, one timeframe a   *)
(* step.  The module also models validateOHLCData, the file-backed route   *)
(* handlers of /api/watchlist, /api/auth/register and /api/auth/login,     *)
(* each split at the awaits between which other handlers run, and the      *)
(* page's optimistic toggleWatchlist.                                      *)
(*                                                                         *)
(* Numbers.  The code computes in IEEE doubles.  The model computes in     *)
(* exact rationals [n |-> numerator, d |-> denominator], kept in lowest    *)
(* terms with d > 0, so that division by the period is a real division     *)
(* and not an integer one.  The range of the doubles is modelled: a        *)
(* result beyond MaxValue in magnitude is Infinity or -Infinity, and the   *)
(* operations on these yield what IEEE arithmetic yields, NaN included     *)
(* (every comparison with NaN is false).  Rounding is outside the model.   *)
(***************************************************************************)
EXTENDS Integers, Sequences, FiniteSets, TLC

(***************************************************************************)
(* Bounds of the model.                                                    *)
(***************************************************************************)
MaxLen == 3
MaxPrice == 1
MaxPeriod == 2
MaxFactor == 1

(***************************************************************************)
(* Rational arithmetic standing for the double arithmetic.  MaxValue       *)
(* stands for Number.MAX_VALUE, the largest finite double.  The values     *)
(* with d = 0 are the non-finite doubles.                                  *)
(***************************************************************************)
MaxValue == 100000

Infinity == [n |-> 1, d |-> 0]
NegInfinity == [n |-> -1, d |-> 0]
NaN == [n |-> 0, d |-> 0]

IsNaN(a) == a.d = 0 /\ a.n = 0
IsFinite(a) == a.d # 0

IAbs(x) == IF x < 0 THEN -x ELSE x
Sign(x) == IF x > 0 THEN 1 ELSE IF x < 0 THEN -1 ELSE 0

RECURSIVE GCD(_, _)
GCD(a, b) == IF b = 0 THEN a ELSE GCD(b, a % b)

\* n / d in lowest terms; a magnitude beyond MaxValue overflows.
Norm(n, d) ==
    IF d = 0 THEN [n |-> Sign(n), d |-> 0]
    ELSE LET s == IF d < 0 THEN -1 ELSE 1
             g == GCD(IAbs(n), IAbs(d))
             qn == (s * n) \div g
             qd == (s * d) \div g
         IN  IF IAbs(qn) > MaxValue /\ IAbs(qn) > MaxValue * qd
             THEN [n |-> Sign(qn), d |-> 0]
             ELSE [n |-> qn, d |-> qd]

R(x) == IF IAbs(x) > MaxValue THEN [n |-> Sign(x), d |-> 0]
        ELSE [n |-> x, d |-> 1]
RNeg(a) == [n |-> -a.n, d |-> a.d]
RAdd(a, b) ==
    IF a.d = 0 /\ b.d = 0
    THEN IF a = b THEN a ELSE NaN
    ELSE Norm(a.n * b.d + b.n * a.d, a.d * b.d)
RSub(a, b) == RAdd(a, RNeg(b))
RMul(a, b) == Norm(a.n * b.n, a.d * b.d)
RInv(b) ==
    IF b.d = 0 THEN IF b.n = 0 THEN NaN ELSE Norm(0, 1)
    ELSE IF b.n = 0 THEN Infinity
    ELSE Norm(b.d, b.n)
RDiv(a, b) == RMul(a, RInv(b))
RLt(a, b) ==
    /\ ~IsNaN(a) /\ ~IsNaN(b)
    /\ IF a.d = 0 /\ b.d = 0 THEN a.n < b.n ELSE a.n * b.d < b.n * a.d
RLe(a, b) ==
    /\ ~IsNaN(a) /\ ~IsNaN(b)
    /\ IF a.d = 0 /\ b.d = 0 THEN a.n <= b.n ELSE a.n * b.d <= b.n * a.d
RGt(a, b) == RLt(b, a)
RGe(a, b) == RLe(b, a)
RAbs(a) == [n |-> IAbs(a.n), d |-> a.d]
\* Math.max: NaN if an argument is NaN.
RMax2(a, b) ==
    IF IsNaN(a) \/ IsNaN(b) THEN NaN ELSE IF RLt(a, b) THEN b ELSE a
RMax3(a, b, c) == RMax2(RMax2(a, b), c)

(***************************************************************************)
(* OHLCData.  The fields are whole prices; time is the position in the     *)
(* sequence.  The engine reads high, low and close only.                   *)
(***************************************************************************)
Prices == 0..MaxPrice

OHLCData == [open : Prices, high : Prices, low : Prices, close : Prices,
             volume : {0}]

\* The engine never reads open and volume: the runs hold them fixed.
EngineBars == {b \in OHLCData : b.open = b.close}

\* The bars that satisfy the data model's ordering (section 3).
OrderedBars == {b \in EngineBars : b.low <= b.close /\ b.close <= b.high}

\* All sequences over S of length 0..n.
SeqsUpTo(S, n) == UNION {[1..m -> S] : m \in 0..n}

\* `undefined`, the value of the optional parameter `previous` when absent.
undefined == [undefined |-> TRUE]

\* calculateTrueRange that ignores the previous close.
calculateTrueRangeNoGap(current, previous) ==
    R(current.high - current.low)

\* calculateTrueRange with the operands of the range subtraction exchanged.
calculateTrueRangeSwapped(current, previous) ==
    IF previous = undefined
    THEN R(current.low - current.high)
    ELSE LET tr1 == R(current.low - current.high)
             tr2 == RAbs(R(current.high - previous.close))
             tr3 == RAbs(R(current.low - previous.close))
         IN  RMax3(tr1, tr2, tr3)

(***************************************************************************)
(* calculateTrueRange(current, previous?)                                  *)
(***************************************************************************)
calculateTrueRange(current, previous) ==
    IF previous = undefined
    THEN R(current.high - current.low)
    ELSE LET tr1 == R(current.high - current.low)
             tr2 == RAbs(R(current.high - previous.close))
             tr3 == RAbs(R(current.low - previous.close))
         IN  RMax3(tr1, tr2, tr3)

\* PreviousBar that takes the bar after the current one when there is one.
PreviousBarAhead(data, i) ==
    IF i > 0
    THEN IF i + 2 <= Len(data) THEN data[i + 2] ELSE data[i]
    ELSE undefined

\* calculateATR line 58: previous = i > 0 ? ohlcData[i - 1] : undefined
\* (i is the code's 0-based index; sequences here are 1-based).
PreviousBar(data, i) == IF i > 0 THEN data[i] ELSE undefined

\* The test of line 48 rejecting a sequence of exactly `period` bars.
ATRInsufficientOffByOne(len, period) == len <= period

\* calculateATR line 48: the insufficient-data test.
ATRInsufficient(len, period) == len < period

\* Smoothing that weighs the previous ATR by period instead of period - 1.
NewATRFullWeight(previousATR, currentTR, period) ==
    RDiv(RAdd(RMul(previousATR, R(period)), currentTR), R(period))

\* calculateATR line 74: Wilder's smoothing step.
NewATR(previousATR, currentTR, period) ==
    RDiv(RAdd(RMul(previousATR, R(period - 1)), currentTR), R(period))

\* calculateATR line 67: the seed pushed after the summing loop.
SeedATR(total, period) == RDiv(total, R(period))

(***************************************************************************)
(* State.                                                                  *)
(***************************************************************************)
VARIABLES
    entry,        \* the exported function the caller invoked
    ohlcData,     \* the input bar sequence
    atrPeriod,    \* period / config.atrPeriod
    factor,       \* config.factor
    pc,           \* position in the code
    i,            \* loop index (0-based, as in the code)
    trueRanges,   \* calculateATR's trueRanges
    sum,          \* calculateATR's sum
    atrValues,    \* calculateATR's atrValues
    results,      \* calculateSupertrend's results
    error,        \* the Error thrown, or "none"
    result,       \* calculateSupertrendForTimeframes' result object
    timeframeIndex,  \* how many keys of configs its forEach has visited
    returnValue,  \* what validateOHLCData returned
    watchlistsFile,  \* the content of /tmp/watchlists.json
    usersFile,    \* the content of /tmp/users.json
    requests,     \* the route handlers in progress, with their locals
    response,     \* the response sent last
    watchlist,    \* the page's React state `watchlist`
    toggles,      \* the toggleWatchlist calls in progress
    cookieStore   \* the browser's token cookie

\* The variables of the indicator engine and its orchestrator.
engineVars == <<entry, ohlcData, atrPeriod, factor, pc, i, trueRanges, sum,
                atrValues, results, error, result, timeframeIndex>>

\* The variables of the route handlers and of the page.
serverVars == <<watchlistsFile, usersFile, requests, response>>

clientVars == <<watchlist, toggles, cookieStore>>

appVars == <<returnValue, serverVars, clientVars>>

vars == <<engineVars, appVars>>

\* The users, the symbols, the concurrent route handlers and the concurrent
\* toggleWatchlist calls of the runs.
Users == {1, 2}

Symbols == {"AAPL", "BTC"}

Handlers == {"h1", "h2"}

Toggles == {"t1", "t2"}

\* A handler that is not serving a request, a toggle that is not running.
IdleRequest == [pc |-> "idle"]

\* No response has been sent yet.
\* A request without a token cookie, with one that jwt.verify rejects, and
\* with one that it decodes to userId.
NoToken == [present |-> FALSE]

NoResponse ==
    [status |-> 0, message |-> "", body |-> <<>>, cookie |-> NoToken]

BadToken == [present |-> TRUE, valid |-> FALSE]

ValidToken(userId) == [present |-> TRUE, valid |-> TRUE, userId |-> userId]

\* Nothing but the engine is running.
AppIdle ==
    /\ returnValue = undefined
    /\ watchlistsFile = [u \in Users |-> <<>>]
    /\ usersFile = <<>>
    /\ requests = [h \in Handlers |-> IdleRequest]
    /\ response = NoResponse
    /\ watchlist = <<>>
    /\ toggles = [t \in Toggles |-> IdleRequest]
    /\ cookieStore = NoToken

\* calculateATR lines 56-60: the true-range loop from index idx on.
RECURSIVE TrueRangeLoop(_, _, _)
TrueRangeLoop(data, idx, ranges) ==
    IF idx < Len(data)
    THEN LET current == data[idx + 1]
             previous == PreviousBar(data, idx)
         IN  TrueRangeLoop(data, idx + 1,
                           Append(ranges, calculateTrueRange(current, previous)))
    ELSE ranges

\* calculateATR lines 63-66: the summing loop from index idx on.
RECURSIVE SumLoop(_, _, _, _)
SumLoop(ranges, period, idx, total) ==
    IF idx < period
    THEN SumLoop(ranges, period, idx + 1, RAdd(total, ranges[idx + 1]))
    ELSE total

\* calculateATR lines 71-76: the smoothing loop from index idx on.
RECURSIVE SmoothLoop(_, _, _, _)
SmoothLoop(ranges, period, idx, atrs) ==
    IF idx < Len(ranges)
    THEN LET previousATR == atrs[Len(atrs)]
             currentTR == ranges[idx + 1]
         IN  SmoothLoop(ranges, period, idx + 1,
                        Append(atrs, NewATR(previousATR, currentTR, period)))
    ELSE atrs

\* A call with a sequence of at most MaxLen bars and a period >= 1.
InitCall(bars, maxLen, entries) ==
    /\ entry \in entries
    /\ ohlcData \in SeqsUpTo(bars, maxLen)
    /\ atrPeriod \in 1..MaxPeriod
    /\ factor \in IF entry = "calculateATR" THEN {0} ELSE 0..MaxFactor
    /\ pc = "call"
    /\ i = 0
    /\ trueRanges = <<>>
    /\ sum = R(0)
    /\ atrValues = <<>>
    /\ results = <<>>
    /\ error = "none"
    /\ result = undefined
    /\ timeframeIndex = 0
    /\ AppIdle

\* calculateSupertrend called on bars as the data model describes them.
Init == InitCall(OrderedBars, MaxLen, {"calculateSupertrend"})

\* calculateATR called directly, on any bars, ordered or not.
InitATR == InitCall(EngineBars, MaxLen - 1, {"calculateATR"})

(***************************************************************************)
(* calculateSupertrend: the per-bar computations.                          *)
(***************************************************************************)
\* The test of line 91 without the extra bar.
SupertrendInsufficientOffByOne(len, period) == len < period

\* line 91: the insufficient-data test.
SupertrendInsufficient(len, period) == len < period + 1

\* line 106
HL2(current) == RDiv(R(current.high + current.low), R(2))

\* BasicLowerBand with the sign of the upper band.
BasicLowerBandAdded(hl2, f, currentATR) == RAdd(hl2, RMul(f, currentATR))

\* lines 109-110; f is config.factor as a number of the arithmetic
BasicUpperBand(hl2, f, currentATR) == RAdd(hl2, RMul(f, currentATR))

BasicLowerBand(hl2, f, currentATR) == RSub(hl2, RMul(f, currentATR))

\* FinalUpperBand with the first comparison reversed.
FinalUpperBandReversed(basicUpperBand, previousUpper, previousClose) ==
    IF RGt(basicUpperBand, previousUpper) \/ RGt(previousClose, previousUpper)
    THEN basicUpperBand
    ELSE previousUpper

\* lines 121-125; previousUpper is previousResult.basicUpperBand
FinalUpperBand(basicUpperBand, previousUpper, previousClose) ==
    IF RLt(basicUpperBand, previousUpper) \/ RGt(previousClose, previousUpper)
    THEN basicUpperBand
    ELSE previousUpper

\* FinalLowerBand with the first comparison reversed.
FinalLowerBandReversed(basicLowerBand, previousLower, previousClose) ==
    IF RLt(basicLowerBand, previousLower) \/ RLt(previousClose, previousLower)
    THEN basicLowerBand
    ELSE previousLower

\* lines 128-132; previousLower is previousResult.basicLowerBand
FinalLowerBand(basicLowerBand, previousLower, previousClose) ==
    IF RGt(basicLowerBand, previousLower) \/ RLt(previousClose, previousLower)
    THEN basicLowerBand
    ELSE previousLower

\* FirstState that starts down unless the close is at or above the upper band.
FirstStateFromUpperBand(close, finalUpperBand, finalLowerBand) ==
    LET direction == IF RGe(close, finalUpperBand) THEN "up" ELSE "down"
    IN  [direction |-> direction,
         value |-> IF direction = "up" THEN finalLowerBand ELSE finalUpperBand,
         signal |-> "hold"]

\* FirstState with a strict comparison: a close on the band counts as up.
FirstStateStrict(close, finalUpperBand, finalLowerBand) ==
    LET direction == IF RLt(close, finalLowerBand) THEN "down" ELSE "up"
    IN  [direction |-> direction,
         value |-> IF direction = "up" THEN finalLowerBand ELSE finalUpperBand,
         signal |-> "hold"]

\* lines 140-143: the first calculation; signal keeps its initial 'hold'
FirstState(close, finalUpperBand, finalLowerBand) ==
    LET direction == IF RLe(close, finalLowerBand) THEN "down" ELSE "up"
    IN  [direction |-> direction,
         value |-> IF direction = "up" THEN finalLowerBand ELSE finalUpperBand,
         signal |-> "hold"]

\* NextState with the strictness of the up-side comparisons exchanged: a
\* close on the lower band keeps the trend up.
NextStateBoundary(previousDirection, close, finalUpperBand, finalLowerBand, hl2) ==
    IF previousDirection = "up" /\ RGe(close, finalLowerBand)
    THEN [direction |-> "up", value |-> finalLowerBand, signal |-> "hold"]
    ELSE IF previousDirection = "up" /\ RLt(close, finalLowerBand)
    THEN [direction |-> "down", value |-> finalUpperBand, signal |-> "sell"]
    ELSE IF previousDirection = "down" /\ RLt(close, finalUpperBand)
    THEN [direction |-> "down", value |-> finalUpperBand, signal |-> "hold"]
    ELSE [direction |-> "up", value |-> finalLowerBand, signal |-> "buy"]

\* NextState whose flip from up to down keeps the signal 'hold'.
NextStateSilentSell(previousDirection, close, finalUpperBand, finalLowerBand, hl2) ==
    IF previousDirection = "up" /\ RGt(close, finalLowerBand)
    THEN [direction |-> "up", value |-> finalLowerBand, signal |-> "hold"]
    ELSE IF previousDirection = "up" /\ RLe(close, finalLowerBand)
    THEN [direction |-> "down", value |-> finalUpperBand, signal |-> "hold"]
    ELSE IF previousDirection = "down" /\ RLt(close, finalUpperBand)
    THEN [direction |-> "down", value |-> finalUpperBand, signal |-> "hold"]
    ELSE IF previousDirection = "down" /\ RGe(close, finalUpperBand)
    THEN [direction |-> "up", value |-> finalLowerBand, signal |-> "buy"]
    ELSE LET direction == IF RGt(close, hl2) THEN "up" ELSE "down"
         IN  [direction |-> direction,
              value |-> IF direction = "up" THEN finalLowerBand
                        ELSE finalUpperBand,
              signal |-> "hold"]

\* NextState that signals on every bar of a trend, not only on the flip.
NextStateAlwaysSignal(previousDirection, close, finalUpperBand, finalLowerBand, hl2) ==
    IF previousDirection = "up" /\ RGt(close, finalLowerBand)
    THEN [direction |-> "up", value |-> finalLowerBand, signal |-> "buy"]
    ELSE IF previousDirection = "up" /\ RLe(close, finalLowerBand)
    THEN [direction |-> "down", value |-> finalUpperBand, signal |-> "sell"]
    ELSE IF previousDirection = "down" /\ RLt(close, finalUpperBand)
    THEN [direction |-> "down", value |-> finalUpperBand, signal |-> "sell"]
    ELSE [direction |-> "up", value |-> finalLowerBand, signal |-> "buy"]

\* lines 145-167: direction, value and signal from the previous direction
NextState(previousDirection, close, finalUpperBand, finalLowerBand, hl2) ==
    IF previousDirection = "up" /\ RGt(close, finalLowerBand)
    THEN [direction |-> "up", value |-> finalLowerBand, signal |-> "hold"]
    ELSE IF previousDirection = "up" /\ RLe(close, finalLowerBand)
    THEN [direction |-> "down", value |-> finalUpperBand, signal |-> "sell"]
    ELSE IF previousDirection = "down" /\ RLt(close, finalUpperBand)
    THEN [direction |-> "down", value |-> finalUpperBand, signal |-> "hold"]
    ELSE IF previousDirection = "down" /\ RGe(close, finalUpperBand)
    THEN [direction |-> "up", value |-> finalLowerBand, signal |-> "buy"]
    ELSE LET direction == IF RGt(close, hl2) THEN "up" ELSE "down"
         IN  [direction |-> direction,
              value |-> IF direction = "up" THEN finalLowerBand
                        ELSE finalUpperBand,
              signal |-> "hold"]

\* SupertrendResult whose value is the upper band whatever the direction.
SupertrendResultUpperValue(state, currentATR, finalUpperBand, finalLowerBand) ==
    [value |-> finalUpperBand,
     direction |-> state.direction,
     signal |-> state.signal,
     atr |-> currentATR,
     basicUpperBand |-> finalUpperBand,
     basicLowerBand |-> finalLowerBand]

\* lines 170-177: the record pushed onto results.  The fields named
\* basicUpperBand / basicLowerBand receive the final bands.
SupertrendResult(state, currentATR, finalUpperBand, finalLowerBand) ==
    [value |-> state.value,
     direction |-> state.direction,
     signal |-> state.signal,
     atr |-> currentATR,
     basicUpperBand |-> finalUpperBand,
     basicLowerBand |-> finalLowerBand]

\* lines 100-177: one iteration of the loop for the code's index idx, given
\* the results pushed so far.
SupertrendIteration(data, period, f, atrs, res, idx) ==
    LET current == data[idx + 1]
        atrIndex == idx - (period - 1)
        currentATR == atrs[atrIndex + 1]
        hl2 == HL2(current)
        basicUpperBand == BasicUpperBand(hl2, f, currentATR)
        basicLowerBand == BasicLowerBand(hl2, f, currentATR)
        previousResult == res[Len(res)]
        previousClose == R(data[idx].close)
        finalUpperBand ==
            IF idx > period - 1
            THEN FinalUpperBand(basicUpperBand, previousResult.basicUpperBand,
                                previousClose)
            ELSE basicUpperBand
        finalLowerBand ==
            IF idx > period - 1
            THEN FinalLowerBand(basicLowerBand, previousResult.basicLowerBand,
                                previousClose)
            ELSE basicLowerBand
        state ==
            IF idx = period - 1
            THEN FirstState(R(current.close), finalUpperBand, finalLowerBand)
            ELSE NextState(previousResult.direction, R(current.close),
                           finalUpperBand, finalLowerBand, hl2)
    IN  SupertrendResult(state, currentATR, finalUpperBand, finalLowerBand)

(***************************************************************************)
(* Actions: the statements of calculateSupertrend and calculateATR.        *)
(***************************************************************************)
\* calculateATR lines 52-78 past the length test: the locals at the return.
ATRRun(data, period) ==
    LET ranges == TrueRangeLoop(data, 0, <<>>)
        total == SumLoop(ranges, period, 0, R(0))
    IN  [trueRanges |-> ranges,
         sum |-> total,
         atrValues |-> SmoothLoop(ranges, period, period,
                                  <<SeedATR(total, period)>>)]

\* calculateATR lines 48-50, called directly: too few bars.
ATRThrow ==
    /\ pc = "call"
    /\ entry = "calculateATR"
    /\ ATRInsufficient(Len(ohlcData), atrPeriod)
    /\ error' = "Insufficient data for ATR calculation"
    /\ pc' = "done"
    /\ UNCHANGED <<entry, ohlcData, atrPeriod, factor, i, trueRanges, sum,
                   atrValues, results>>
    /\ UNCHANGED <<result, timeframeIndex>>
    /\ UNCHANGED appVars

\* calculateATR lines 48-78, called directly: returns atrValues.
ATRReturn ==
    /\ pc = "call"
    /\ entry = "calculateATR"
    /\ ~ATRInsufficient(Len(ohlcData), atrPeriod)
    /\ LET run == ATRRun(ohlcData, atrPeriod)
       IN  /\ trueRanges' = run.trueRanges
           /\ sum' = run.sum
           /\ atrValues' = run.atrValues
    /\ pc' = "done"
    /\ UNCHANGED <<entry, ohlcData, atrPeriod, factor, i, results, error>>
    /\ UNCHANGED <<result, timeframeIndex>>
    /\ UNCHANGED appVars

\* calculateSupertrend lines 89-93: throws on too few bars.
SupertrendThrow ==
    /\ pc = "call"
    /\ entry = "calculateSupertrend"
    /\ SupertrendInsufficient(Len(ohlcData), atrPeriod)
    /\ error' = "Insufficient data for Supertrend calculation"
    /\ pc' = "done"
    /\ UNCHANGED <<entry, ohlcData, atrPeriod, factor, i, trueRanges, sum,
                   atrValues, results>>
    /\ UNCHANGED <<result, timeframeIndex>>
    /\ UNCHANGED appVars

\* calculateSupertrend lines 91-100: enough bars; calculateATR runs and
\* returns (or its Error propagates), and the loop is entered.
SupertrendCallATR ==
    /\ pc = "call"
    /\ entry = "calculateSupertrend"
    /\ ~SupertrendInsufficient(Len(ohlcData), atrPeriod)
    /\ IF ATRInsufficient(Len(ohlcData), atrPeriod)
       THEN /\ error' = "Insufficient data for ATR calculation"
            /\ pc' = "done"
            /\ UNCHANGED <<i, trueRanges, sum, atrValues, results>>
       ELSE /\ LET run == ATRRun(ohlcData, atrPeriod)
               IN  /\ trueRanges' = run.trueRanges
                   /\ sum' = run.sum
                   /\ atrValues' = run.atrValues
            /\ results' = <<>>
            /\ i' = atrPeriod - 1
            /\ pc' = "st_loop"
            /\ error' = error
    /\ UNCHANGED <<entry, ohlcData, atrPeriod, factor>>
    /\ UNCHANGED <<result, timeframeIndex>>
    /\ UNCHANGED appVars

\* calculateSupertrend lines 100-178: one iteration.
SupertrendStep ==
    /\ pc = "st_loop"
    /\ i < Len(ohlcData)
    /\ results' = Append(results,
                         SupertrendIteration(ohlcData, atrPeriod, R(factor),
                                             atrValues, results, i))
    /\ i' = i + 1
    /\ UNCHANGED <<entry, ohlcData, atrPeriod, factor, pc, trueRanges, sum,
                   atrValues, error>>
    /\ UNCHANGED <<result, timeframeIndex>>
    /\ UNCHANGED appVars

\* calculateSupertrend lines 100, 180.
SupertrendReturn ==
    /\ pc = "st_loop"
    /\ ~(i < Len(ohlcData))
    /\ pc' = "done"
    /\ UNCHANGED <<entry, ohlcData, atrPeriod, factor, i, trueRanges, sum,
                   atrValues, results, error>>
    /\ UNCHANGED <<result, timeframeIndex>>
    /\ UNCHANGED appVars

\* calculateSupertrend.
Next ==
    \/ SupertrendThrow
    \/ SupertrendCallATR
    \/ SupertrendStep
    \/ SupertrendReturn

Spec == Init /\ [][Next]_vars

\* calculateATR called directly.
NextATR ==
    \/ ATRThrow
    \/ ATRReturn

SpecATR == InitATR /\ [][NextATR]_vars

(***************************************************************************)
(* calculateSupertrend and getLatestSupertrendSignal as their callers see  *)
(* them: the whole call in one evaluation.                                 *)
(***************************************************************************)
\* calculateSupertrend lines 100-178: the loop from index idx on.
RECURSIVE SupertrendLoop(_, _, _, _, _, _)
SupertrendLoop(data, period, f, atrs, res, idx) ==
    IF idx < Len(data)
    THEN SupertrendLoop(data, period, f, atrs,
                        Append(res, SupertrendIteration(data, period, f, atrs,
                                                        res, idx)),
                        idx + 1)
    ELSE res

\* calculateSupertrend lines 85-181: the Error thrown, or the results.
calculateSupertrend(data, config) ==
    IF SupertrendInsufficient(Len(data), config.atrPeriod)
    THEN [error |-> "Insufficient data for Supertrend calculation",
          results |-> <<>>]
    ELSE IF ATRInsufficient(Len(data), config.atrPeriod)
    THEN [error |-> "Insufficient data for ATR calculation", results |-> <<>>]
    ELSE [error |-> "none",
          results |-> SupertrendLoop(data, config.atrPeriod, config.factor,
                                     ATRRun(data, config.atrPeriod).atrValues,
                                     <<>>, config.atrPeriod - 1)]

\* `null`
null == [null |-> TRUE]

\* lines 186-194: the last result, or null; an Error is caught and gives null.
getLatestSupertrendSignal(data, config) ==
    LET call == calculateSupertrend(data, config)
    IN  IF call.error # "none" THEN null
        ELSE IF Len(call.results) > 0
        THEN call.results[Len(call.results)]
        ELSE null

(***************************************************************************)
(* calculateSupertrendForTimeframes (app/api/stocks route), lines 435-508. *)
(***************************************************************************)
\* Object.keys(configs), in insertion order (lines 464-469, 472).
Timeframes == <<"45M", "2H", "4H", "1D", "3D", "1W">>

\* lines 463-470
configs ==
    [t \in {Timeframes[k] : k \in 1..Len(Timeframes)} |->
        CASE t = "45M" -> [atrPeriod |-> 7, factor |-> Norm(2, 1)]
          [] t = "2H" -> [atrPeriod |-> 8, factor |-> Norm(5, 2)]
          [] t = "4H" -> [atrPeriod |-> 10, factor |-> Norm(14, 5)]
          [] t = "1D" -> [atrPeriod |-> 12, factor |-> Norm(3, 1)]
          [] t = "3D" -> [atrPeriod |-> 14, factor |-> Norm(7, 2)]
          [] t = "1W" -> [atrPeriod |-> 15, factor |-> Norm(4, 1)]]

Min(a, b) == IF a < b THEN a ELSE b

\* lines 477-485: the switch on the timeframe.
dataLength(timeframe, length) ==
    CASE timeframe = "45M" -> Min(20, length)
      [] timeframe = "2H" -> Min(25, length)
      [] timeframe = "4H" -> Min(30, length)
      [] timeframe = "1D" -> Min(40, length)
      [] timeframe = "3D" -> Min(50, length)
      [] timeframe = "1W" -> length
      [] OTHER -> length

\* line 487: data.slice(-count); slice(-0) is slice(0), the whole array.
SliceLast(data, count) ==
    IF count = 0 THEN data
    ELSE SubSeq(data, Len(data) - Min(count, Len(data)) + 1, Len(data))

\* A result object whose weekly entry was never created.
NullResultWithoutWeekly ==
    [t \in {Timeframes[k] : k \in 1..Len(Timeframes) - 1} |-> null]

\* lines 443-450: the result object, every entry null.
NullResult ==
    [t \in {Timeframes[k] : k \in 1..Len(Timeframes)} |-> null]

\* The overall test with the threshold one bar lower.
TooFewBarsBelowFourteen(length) == length < 14

\* line 455: the test for too little data overall.
TooFewBars(length) == length < 15

\* line 491: the per-timeframe test.
TimeframeEnough(length, period) == length >= period + 1

\* lines 454-458: too little data, every entry stays null.
OrchestratorInsufficient ==
    /\ UNCHANGED appVars
    /\ pc = "call"
    /\ entry = "calculateSupertrendForTimeframes"
    /\ TooFewBars(Len(ohlcData))
    /\ result' = NullResult
    /\ pc' = "done"
    /\ UNCHANGED <<entry, ohlcData, atrPeriod, factor, i, trueRanges, sum,
                   atrValues, results, error, timeframeIndex>>

\* lines 443-472: enough data, the forEach over the timeframes begins.
OrchestratorBegin ==
    /\ UNCHANGED appVars
    /\ pc = "call"
    /\ entry = "calculateSupertrendForTimeframes"
    /\ ~TooFewBars(Len(ohlcData))
    /\ result' = NullResult
    /\ timeframeIndex' = 0
    /\ pc' = "tf_loop"
    /\ UNCHANGED <<entry, ohlcData, atrPeriod, factor, i, trueRanges, sum,
                   atrValues, results, error>>

\* TimeframeStep that leaves the forEach at the first timeframe with too
\* little data.
TimeframeStepAbort ==
    /\ UNCHANGED appVars
    /\ pc = "tf_loop"
    /\ timeframeIndex < Len(Timeframes)
    /\ LET timeframe == Timeframes[timeframeIndex + 1]
           config == configs[timeframe]
           timeframeData ==
               SliceLast(ohlcData, dataLength(timeframe, Len(ohlcData)))
       IN  IF TimeframeEnough(Len(timeframeData), config.atrPeriod)
           THEN /\ result' = (timeframe :>
                                getLatestSupertrendSignal(timeframeData, config))
                             @@ result
                /\ timeframeIndex' = timeframeIndex + 1
                /\ pc' = pc
           ELSE /\ pc' = "done"
                /\ UNCHANGED <<result, timeframeIndex>>
    /\ UNCHANGED appVars
    /\ UNCHANGED <<entry, ohlcData, atrPeriod, factor, i, trueRanges, sum,
                   atrValues, results, error>>

\* TimeframeStep that takes its window with splice, which removes the
\* window's bars from the master sequence.
TimeframeStepSplice ==
    /\ UNCHANGED appVars
    /\ pc = "tf_loop"
    /\ timeframeIndex < Len(Timeframes)
    /\ LET timeframe == Timeframes[timeframeIndex + 1]
           config == configs[timeframe]
           count == dataLength(timeframe, Len(ohlcData))
           timeframeData == SliceLast(ohlcData, count)
       IN  /\ ohlcData' = SubSeq(ohlcData, 1, Len(ohlcData) - count)
           /\ IF TimeframeEnough(Len(timeframeData), config.atrPeriod)
              THEN result' = (timeframe :>
                                getLatestSupertrendSignal(timeframeData, config))
                             @@ result
              ELSE result' = result
    /\ timeframeIndex' = timeframeIndex + 1
    /\ UNCHANGED <<entry, atrPeriod, factor, pc, i, trueRanges, sum,
                   atrValues, results, error>>

\* lines 472-503: one callback of the forEach.  getLatestSupertrendSignal
\* catches every Error of the computation, so the try of line 492 and the
\* outer try of line 460 catch nothing.
TimeframeStep ==
    /\ UNCHANGED appVars
    /\ pc = "tf_loop"
    /\ timeframeIndex < Len(Timeframes)
    /\ LET timeframe == Timeframes[timeframeIndex + 1]
           config == configs[timeframe]
           timeframeData ==
               SliceLast(ohlcData, dataLength(timeframe, Len(ohlcData)))
       IN  IF TimeframeEnough(Len(timeframeData), config.atrPeriod)
           THEN result' = (timeframe :>
                             getLatestSupertrendSignal(timeframeData, config))
                          @@ result
           ELSE result' = result
    /\ timeframeIndex' = timeframeIndex + 1
    /\ UNCHANGED <<entry, ohlcData, atrPeriod, factor, pc, i, trueRanges, sum,
                   atrValues, results, error>>

\* lines 472, 507: the forEach is over, result is returned.
OrchestratorReturn ==
    /\ UNCHANGED appVars
    /\ pc = "tf_loop"
    /\ ~(timeframeIndex < Len(Timeframes))
    /\ pc' = "done"
    /\ UNCHANGED <<entry, ohlcData, atrPeriod, factor, i, trueRanges, sum,
                   atrValues, results, error, result, timeframeIndex>>

(***************************************************************************)
(* The master sequences of the orchestrator's runs: daily bars of range 1  *)
(* whose close moves by 1 a day, first one way for `turn` days and then    *)
(* the other way.  Every true range is 1, so every ATR is 1 and the bands  *)
(* stay small numbers over any number of bars.                             *)
(***************************************************************************)
MaxBars == 21

WalkClose(j, turn, first) ==
    LET ahead == IF j <= turn THEN j ELSE 2 * turn - j
    IN  IF first = "up" THEN MaxBars + 1 + ahead ELSE MaxBars + 1 - ahead

WalkRising(j, turn, first) == (j <= turn) = (first = "up")

WalkBar(j, turn, first) ==
    LET c == WalkClose(j, turn, first)
    IN  IF WalkRising(j, turn, first)
        THEN [open |-> c, high |-> c, low |-> c - 1, close |-> c, volume |-> 0]
        ELSE [open |-> c, high |-> c + 1, low |-> c, close |-> c, volume |-> 0]

Walks ==
    {[j \in 1..n |-> WalkBar(j, turn, first)] :
        n \in 0..MaxBars, turn \in 0..MaxBars, first \in {"up", "down"}}

\* calculateSupertrendForTimeframes called on a master sequence; the
\* configurations are its own, atrPeriod and factor play no part.
InitTimeframes ==
    /\ entry = "calculateSupertrendForTimeframes"
    /\ ohlcData \in Walks
    /\ atrPeriod = 1
    /\ factor = 0
    /\ pc = "call"
    /\ i = 0
    /\ trueRanges = <<>>
    /\ sum = R(0)
    /\ atrValues = <<>>
    /\ results = <<>>
    /\ error = "none"
    /\ result = undefined
    /\ timeframeIndex = 0
    /\ AppIdle

NextTimeframes ==
    \/ OrchestratorInsufficient
    \/ OrchestratorBegin
    \/ TimeframeStep
    \/ OrchestratorReturn

SpecTimeframes == InitTimeframes /\ [][NextTimeframes]_vars

(***************************************************************************)
(* calculateSupertrend on the two example series of section 8 and their    *)
(* neighbours, with the default configuration.  Prices are in tenths: the  *)
(* computation is homogeneous in the prices, so 10.1 is 101 and every      *)
(* comparison is the one of the unscaled series.                           *)
(***************************************************************************)
MaxMove == 10
MaxWick == 3

\* line 87: the default configuration (factor 3.0).
DefaultConfig == [atrPeriod |-> 10, factor |-> 3]

\* n bars with high = close + 0.1 and low = close - 0.1: closes of 10, the
\* last close `last` tenths.
ExampleBars(n, last) ==
    [j \in 1..n |->
        LET c == IF j < n THEN 100 ELSE last
        IN  [open |-> c, high |-> c + 1, low |-> c - 1, close |-> c,
             volume |-> 0]]

\* The series of the first example: closes 10 ten times, then 11.
ExampleSeries == ExampleBars(11, 110)

\* 30 bars whose closes rise by 1 a bar, each bar reaching from 1 below its
\* close up to its close; bar s has a wick of w * 10 added above its close
\* (kind "upper") or below its low (kind "lower").  The true ranges before
\* bar s are all 1, so the ATR is 1 until bar s.
RisingBars(s, w, kind) ==
    [j \in 1..30 |->
        LET c == 100 + 10 * j
            above == IF j = s /\ kind = "upper" THEN 100 * w ELSE 0
            below == IF j = s /\ kind = "lower" THEN 100 * w ELSE 0
        IN  [open |-> c, high |-> c + above, low |-> c - 10 - below,
             close |-> c, volume |-> 0]]

ExampleInputs ==
    {ExampleBars(n, last) : n \in {10, 11},
                            last \in (100 - MaxMove)..(100 + MaxMove)}

RisingInputs ==
    {RisingBars(s, w, kind) : s \in 27..30, w \in 0..MaxWick,
                              kind \in {"upper", "lower"}}

InitExamples ==
    /\ entry = "calculateSupertrend"
    /\ ohlcData \in ExampleInputs \cup RisingInputs
    /\ atrPeriod = DefaultConfig.atrPeriod
    /\ factor = DefaultConfig.factor
    /\ pc = "call"
    /\ i = 0
    /\ trueRanges = <<>>
    /\ sum = R(0)
    /\ atrValues = <<>>
    /\ results = <<>>
    /\ error = "none"
    /\ result = undefined
    /\ timeframeIndex = 0
    /\ AppIdle

SpecExamples == InitExamples /\ [][Next]_vars

(***************************************************************************)
(* calculateSupertrend on any bars, ordered or not: nothing in the code    *)
(* stands between a caller's bars and the computation.                     *)
(***************************************************************************)
InitAnyBars == InitCall(EngineBars, MaxLen - 1, {"calculateSupertrend"})

SpecAnyBars == InitAnyBars /\ [][Next]_vars

(***************************************************************************)
(* calculateSupertrend on ordered bars whose prices are 0 or the largest   *)
(* finite number: sums of two such prices overflow.                        *)
(***************************************************************************)
ExtremePrices == {0, MaxValue}

ExtremeBars ==
    {b \in [open : ExtremePrices, high : ExtremePrices, low : ExtremePrices,
            close : ExtremePrices, volume : {0}] :
        b.open = b.close /\ b.low <= b.close /\ b.close <= b.high}

InitExtreme == InitCall(ExtremeBars, MaxLen, {"calculateSupertrend"})

SpecExtreme == InitExtreme /\ [][Next]_vars

(***************************************************************************)
(* Any of the exported functions called: calculateATR on any bars,         *)
(* calculateSupertrend on ordered bars of extreme prices, and the          *)
(* orchestrator on a master sequence.                                      *)
(***************************************************************************)
InitCalls == InitATR \/ InitExtreme \/ InitTimeframes

NextCalls == NextATR \/ Next \/ NextTimeframes

SpecCalls == InitCalls /\ [][NextCalls]_vars

\* ---------------------------------------------------------------------
\* validateOHLCData
\* ---------------------------------------------------------------------

\* validateOHLCData that never looks at the open.
validateOHLCDataNoOpen(data) ==
    \A k \in 1..Len(data) :
        LET candle == data[k]
        IN  /\ candle.high >= candle.low
            /\ candle.high >= candle.close
            /\ candle.low <= candle.close
            /\ candle.volume >= 0

\* ohlcData.every(...): true for the empty array.
validateOHLCData(data) ==
    \A k \in 1..Len(data) :
        LET candle == data[k]
        IN  /\ candle.high >= candle.low
            /\ candle.high >= candle.open
            /\ candle.high >= candle.close
            /\ candle.low <= candle.open
            /\ candle.low <= candle.close
            /\ candle.volume >= 0

\* The call of validateOHLCData: one step, nothing but the return value.
ValidateReturn ==
    /\ entry = "validateOHLCData"
    /\ pc = "call"
    /\ returnValue' = validateOHLCData(ohlcData)
    /\ pc' = "done"
    /\ UNCHANGED <<entry, ohlcData, atrPeriod, factor, i, trueRanges, sum,
                   atrValues, results, error, result, timeframeIndex>>
    /\ UNCHANGED <<serverVars, clientVars>>

\* Bars with every field free, the volume possibly negative.
AnyBars == [open : Prices, high : Prices, low : Prices, close : Prices,
            volume : {-1, 0}]

\* A bar all of whose fields are 0: it passes every comparison.
FlatBar == [open |-> 0, high |-> 0, low |-> 0, close |-> 0, volume |-> 0]

\* The arrays of up to MaxLen bars in which one bar is free and the others
\* are flat, and the empty array.
ValidateInputs ==
    {<<>>} \cup
    {[k \in 1..n |-> IF k = at THEN b ELSE FlatBar] :
        <<n, at, b>> \in {t \in (1..MaxLen) \X (1..MaxLen) \X AnyBars :
                             t[2] <= t[1]}}

InitValidate ==
    /\ entry = "validateOHLCData"
    /\ ohlcData \in ValidateInputs
    /\ atrPeriod = 1
    /\ factor = 0
    /\ pc = "call"
    /\ i = 0
    /\ trueRanges = <<>>
    /\ sum = R(0)
    /\ atrValues = <<>>
    /\ results = <<>>
    /\ error = "none"
    /\ result = undefined
    /\ timeframeIndex = 0
    /\ AppIdle

NextValidate == ValidateReturn

SpecValidate == InitValidate /\ [][NextValidate]_vars

(***************************************************************************)
(* The file-backed watchlist route: GET, POST and DELETE of /api/watchlist. *)
(* A handler runs from await to await; between its read of the file and    *)
(* its write the other handlers run.                                       *)
(***************************************************************************)
\* The engine is not running.
EngineIdle ==
    /\ entry = "none"
    /\ ohlcData = <<>>
    /\ atrPeriod = 1
    /\ factor = 0
    /\ pc = "call"
    /\ i = 0
    /\ trueRanges = <<>>
    /\ sum = R(0)
    /\ atrValues = <<>>
    /\ results = <<>>
    /\ error = "none"
    /\ result = undefined
    /\ timeframeIndex = 0
    /\ returnValue = undefined

\* What a route handler leaves alone.
notServerVars == <<engineVars, returnValue, clientVars>>

Tokens == {NoToken, BadToken} \cup {ValidToken(u) : u \in Users}

\* getUserIdFromToken that trusts a token jwt.verify rejects.
getUserIdFromTokenUnverified(token) ==
    IF ~token.present THEN 0
    ELSE IF ~token.valid THEN 1
    ELSE token.userId

\* lines 36-48: null (written 0: both fail the test !userId) without a
\* token or when jwt.verify throws, the decoded userId otherwise.
getUserIdFromToken(token) ==
    IF ~token.present THEN 0
    ELSE IF ~token.valid THEN 0
    ELSE token.userId

\* Array.prototype.includes.
includes(list, x) == \E k \in 1..Len(list) : list[k] = x

\* list.filter((s) => s !== symbol).
without(list, symbol) == SelectSeq(list, LAMBDA x : x # symbol)

\* NextResponse.json(body, { status }).
Reply(status, message, body) ==
    [status |-> status, message |-> message, body |-> body, cookie |-> NoToken]

\* A request for /api/watchlist reaches an idle handler.
WatchlistReceive(h, method, token, symbol) ==
    /\ requests[h].pc = "idle"
    /\ requests' = [requests EXCEPT ![h] =
                      [pc |-> "auth", route |-> "watchlist", method |-> method,
                       token |-> token, symbol |-> symbol]]
    /\ UNCHANGED <<watchlistsFile, usersFile, response>>
    /\ UNCHANGED notServerVars

\* lines 51-54, 63-71, 86-94: the token and the symbol are examined.
WatchlistAuthorize(h) ==
    /\ requests[h].pc = "auth"
    /\ requests[h].route = "watchlist"
    /\ LET req == requests[h]
           userId == getUserIdFromToken(req.token)
       IN  IF userId = 0
           THEN /\ response' = Reply(401, "Unauthorized", <<>>)
                /\ requests' = [requests EXCEPT ![h] = IdleRequest]
           ELSE IF req.method # "GET" /\ req.symbol = ""
           THEN /\ response' = Reply(400, "Stock symbol is required", <<>>)
                /\ requests' = [requests EXCEPT ![h] = IdleRequest]
           ELSE /\ requests' = [requests EXCEPT ![h] =
                                  [req EXCEPT !.pc = "read"] @@
                                  [userId |-> userId]]
                /\ UNCHANGED response
    /\ UNCHANGED <<watchlistsFile, usersFile>>
    /\ UNCHANGED notServerVars

\* Modified for a POST that pushes without looking.
ModifiedAlwaysPush(method, watchlists, userId, symbol) ==
    LET userWatchlist == watchlists[userId]
    IN  IF method = "POST"
        THEN [watchlists EXCEPT ![userId] = Append(userWatchlist, symbol)]
        ELSE IF method = "DELETE" /\ includes(userWatchlist, symbol)
        THEN [watchlists EXCEPT ![userId] = without(userWatchlist, symbol)]
        ELSE watchlists

\* The changed object a POST or DELETE is about to write, given the object
\* it read; the object itself when there is nothing to change.
Modified(method, watchlists, userId, symbol) ==
    LET userWatchlist == watchlists[userId]
    IN  IF method = "POST" /\ ~includes(userWatchlist, symbol)
        THEN [watchlists EXCEPT ![userId] = Append(userWatchlist, symbol)]
        ELSE IF method = "DELETE" /\ includes(userWatchlist, symbol)
        THEN [watchlists EXCEPT ![userId] = without(userWatchlist, symbol)]
        ELSE watchlists

\* lines 56-59, 73-82, 96-105 up to the write: readWatchlists returns the
\* file's content; GET answers with the user's list, POST and DELETE answer
\* at once when there is nothing to change and go on to write otherwise.
WatchlistRead(h) ==
    /\ requests[h].pc = "read"
    /\ requests[h].route = "watchlist"
    /\ LET req == requests[h]
           watchlists == watchlistsFile
           changed == Modified(req.method, watchlists, req.userId, req.symbol)
       IN  IF changed = watchlists
           THEN /\ response' = Reply(200, "", watchlists[req.userId])
                /\ requests' = [requests EXCEPT ![h] = IdleRequest]
           ELSE /\ requests' = [requests EXCEPT ![h] =
                                  [req EXCEPT !.pc = "write"] @@
                                  [watchlists |-> changed]]
                /\ UNCHANGED response
    /\ UNCHANGED <<watchlistsFile, usersFile>>
    /\ UNCHANGED notServerVars

\* lines 79-82, 102-105: writeWatchlists replaces the file by the handler's
\* object, and the handler answers with the user's list.
WatchlistWrite(h) ==
    /\ requests[h].pc = "write"
    /\ requests[h].route = "watchlist"
    /\ watchlistsFile' = requests[h].watchlists
    /\ response' = Reply(200, "", requests[h].watchlists[requests[h].userId])
    /\ requests' = [requests EXCEPT ![h] = IdleRequest]
    /\ UNCHANGED usersFile
    /\ UNCHANGED notServerVars

\* The lists over S without a repeated element.
NoDupLists(S) ==
    {q \in SeqsUpTo(S, Cardinality(S)) :
        \A a, b \in 1..Len(q) : q[a] = q[b] => a = b}

Methods == {"GET", "POST", "DELETE"}

SymbolInputs == Symbols \cup {""}

InitWatchlist ==
    /\ EngineIdle
    /\ watchlistsFile \in [Users -> NoDupLists(Symbols)]
    /\ usersFile = <<>>
    /\ requests = [h \in Handlers |-> IdleRequest]
    /\ response = NoResponse
    /\ watchlist = <<>>
    /\ toggles = [t \in Toggles |-> IdleRequest]
    /\ cookieStore = NoToken

WatchlistStep(h) ==
    \/ WatchlistAuthorize(h)
    \/ WatchlistRead(h)
    \/ WatchlistWrite(h)

NextWatchlist ==
    \E h \in Handlers :
        \/ \E method \in Methods, token \in Tokens, symbol \in SymbolInputs :
               WatchlistReceive(h, method, token, symbol)
        \/ WatchlistStep(h)

\* The route starting from an empty store: whatever is stored later was
\* added by a POST.
InitEmptyStore ==
    /\ InitWatchlist
    /\ watchlistsFile = [u \in Users |-> <<>>]

SpecWatchlist == InitEmptyStore /\ [][NextWatchlist]_vars

\* No handler is serving a request.
AllIdle == \A h \in Handlers : requests[h].pc = "idle"

\* Sequential requests: a request is sent when the previous one has been
\* answered.
NextSequential ==
    \E h \in Handlers :
        \/ \E method \in Methods, token \in Tokens, symbol \in SymbolInputs :
               AllIdle /\ WatchlistReceive(h, method, token, symbol)
        \/ WatchlistStep(h)

SpecSequential == InitWatchlist /\ [][NextSequential]_vars

(***************************************************************************)
(* The file-backed routes /api/auth/register and /api/auth/login.          *)
(***************************************************************************)
Emails == {"ann@x.io", "bob@x.io"}

Passwords == {"pw1", "pw2"}

\* bcrypt.hash(password, 10): a value that is not the password and that
\* bcrypt.compare recognises.
bcryptHash(password) == [bcrypt |-> password]

\* bcrypt.compare that accepts every password.
bcryptCompareAlways(password, hash) == TRUE

\* bcrypt.compare(password, hash).
bcryptCompare(password, hash) == hash = bcryptHash(password)

\* users.find that finds nobody.
findNobody(users, email) == 0

\* users.find((user) => user.email === email): the index of the first
\* match, 0 (for undefined) without one.
find(users, email) ==
    LET matches == {k \in 1..Len(users) : users[k].email = email}
    IN  IF matches = {} THEN 0
        ELSE CHOOSE k \in matches : \A j \in matches : k <= j

\* A request for a route of /api/auth reaches an idle handler.
AuthReceive(h, route, email, password) ==
    /\ requests[h].pc = "idle"
    /\ requests' = [requests EXCEPT ![h] =
                      [pc |-> "parse", route |-> route, email |-> email,
                       password |-> password]]
    /\ UNCHANGED <<watchlistsFile, usersFile, response>>
    /\ UNCHANGED notServerVars

\* register lines 75-79, login lines 76-80: the body is examined.
AuthValidate(h) ==
    /\ requests[h].pc = "parse"
    /\ IF requests[h].email = "" \/ requests[h].password = ""
       THEN /\ response' = Reply(400, "Email and password are required", <<>>)
            /\ requests' = [requests EXCEPT ![h] = IdleRequest]
       ELSE /\ requests' = [requests EXCEPT ![h].pc = "read"]
            /\ UNCHANGED response
    /\ UNCHANGED <<watchlistsFile, usersFile>>
    /\ UNCHANGED notServerVars

\* register lines 81-87: readUsers returns the file's content; 409 when the
\* email is found, otherwise the handler goes on with its copy.
RegisterRead(h) ==
    /\ requests[h].pc = "read"
    /\ requests[h].route = "register"
    /\ LET users == usersFile
       IN  IF find(users, requests[h].email) # 0
           THEN /\ response' = Reply(409, "User already exists", <<>>)
                /\ requests' = [requests EXCEPT ![h] = IdleRequest]
           ELSE /\ requests' = [requests EXCEPT ![h] =
                                  [requests[h] EXCEPT !.pc = "write"] @@
                                  [users |-> users]]
                /\ UNCHANGED response
    /\ UNCHANGED <<watchlistsFile, usersFile>>
    /\ UNCHANGED notServerVars

\* register lines 89-100: the new user is pushed onto the handler's copy,
\* which writeUsers puts in place of the file.
RegisterWrite(h) ==
    /\ requests[h].pc = "write"
    /\ requests[h].route = "register"
    /\ LET users == requests[h].users
           newUser == [id |-> Len(users) + 1, email |-> requests[h].email,
                       password |-> bcryptHash(requests[h].password)]
       IN  usersFile' = Append(users, newUser)
    /\ response' = Reply(201, "User created successfully", <<>>)
    /\ requests' = [requests EXCEPT ![h] = IdleRequest]
    /\ UNCHANGED watchlistsFile
    /\ UNCHANGED notServerVars

\* login lines 82-108: the user is looked up and the password compared;
\* only then is the token signed and set as the cookie of the response.
LoginRead(h) ==
    /\ requests[h].pc = "read"
    /\ requests[h].route = "login"
    /\ LET users == usersFile
           found == find(users, requests[h].email)
       IN  IF found = 0
           THEN response' = Reply(401, "Invalid credentials", <<>>)
           ELSE LET user == users[found]
                IN  IF ~bcryptCompare(requests[h].password, user.password)
                    THEN response' = Reply(401, "Invalid credentials", <<>>)
                    ELSE response' =
                             [Reply(200, "Login successful", <<>>)
                                EXCEPT !.cookie = ValidToken(user.id)]
    /\ requests' = [requests EXCEPT ![h] = IdleRequest]
    /\ UNCHANGED <<watchlistsFile, usersFile>>
    /\ UNCHANGED notServerVars

InitAuth ==
    /\ EngineIdle
    /\ watchlistsFile = [u \in Users |-> <<>>]
    /\ usersFile = <<>>
    /\ requests = [h \in Handlers |-> IdleRequest]
    /\ response = NoResponse
    /\ watchlist = <<>>
    /\ toggles = [t \in Toggles |-> IdleRequest]
    /\ cookieStore = NoToken

NextAuth ==
    \E h \in Handlers :
        \/ \E route \in {"register", "login"}, email \in Emails \cup {""},
              password \in Passwords \cup {""} :
               AuthReceive(h, route, email, password)
        \/ AuthValidate(h)
        \/ RegisterRead(h)
        \/ RegisterWrite(h)
        \/ LoginRead(h)

SpecAuth == InitAuth /\ [][NextAuth]_vars

(***************************************************************************)
(* The page's optimistic watchlist update, toggleWatchlist, against the    *)
(* file-backed route.                                                      *)
(***************************************************************************)
\* The user who is logged in on the page.
PageUser == 1

\* lines 180-186: the optimistic update; the call then awaits fetch,
\* keeping the `watchlist` of its closure for the revert.
toggleWatchlist(t, assetSymbol) ==
    /\ toggles[t].pc = "idle"
    /\ LET isWatched == includes(watchlist, assetSymbol)
           newWatchlist == IF isWatched THEN without(watchlist, assetSymbol)
                           ELSE Append(watchlist, assetSymbol)
       IN  /\ watchlist' = newWatchlist
           /\ toggles' = [toggles EXCEPT ![t] =
                            [pc |-> "fetch", watchlist |-> watchlist,
                             method |-> IF isWatched THEN "DELETE" ELSE "POST",
                             symbol |-> assetSymbol]]
    /\ UNCHANGED <<cookieStore, serverVars, engineVars, returnValue>>

\* lines 189-193: the request of fetch reaches a handler, with the cookie.
FetchSend(t, h) ==
    /\ toggles[t].pc = "fetch"
    /\ requests[h].pc = "idle"
    /\ \A o \in Toggles : toggles[o].pc = "await" => toggles[o].handler # h
    /\ requests' = [requests EXCEPT ![h] =
                      [pc |-> "auth", route |-> "watchlist",
                       method |-> toggles[t].method, token |-> cookieStore,
                       symbol |-> toggles[t].symbol]]
    /\ toggles' = [toggles EXCEPT ![t] =
                     [pc |-> "await", watchlist |-> toggles[t].watchlist,
                      handler |-> h]]
    /\ UNCHANGED <<watchlist, cookieStore, watchlistsFile, usersFile, response,
                   engineVars, returnValue>>

\* line 189: fetch resolves with the handler's response, whatever its
\* status; the response is not looked at.
FetchResolve(t) ==
    /\ toggles[t].pc = "await"
    /\ requests[toggles[t].handler].pc = "idle"
    /\ toggles' = [toggles EXCEPT ![t] = IdleRequest]
    /\ UNCHANGED <<watchlist, cookieStore, serverVars, engineVars, returnValue>>

\* lines 194-198: fetch rejects (the network failed, before the request
\* got through or after the handler answered); the list of the closure is
\* put back.
FetchReject(t) ==
    /\ \/ toggles[t].pc = "fetch"
       \/ toggles[t].pc = "await" /\ requests[toggles[t].handler].pc = "idle"
    /\ watchlist' = toggles[t].watchlist
    /\ toggles' = [toggles EXCEPT ![t] = IdleRequest]
    /\ UNCHANGED <<cookieStore, serverVars, engineVars, returnValue>>

\* The token cookie reaches its maxAge of one hour.
CookieExpires ==
    /\ cookieStore # NoToken
    /\ cookieStore' = NoToken
    /\ UNCHANGED <<watchlist, toggles, serverVars, engineVars, returnValue>>

\* The page after its initial fetch of the watchlist: the page's list is the
\* stored one.
InitPage ==
    /\ EngineIdle
    /\ watchlistsFile \in {f \in [Users -> NoDupLists(Symbols)] :
                              \A u \in Users \ {PageUser} : f[u] = <<>>}
    /\ usersFile = <<>>
    /\ requests = [h \in Handlers |-> IdleRequest]
    /\ response = NoResponse
    /\ watchlist = watchlistsFile[PageUser]
    /\ toggles = [t \in Toggles |-> IdleRequest]
    /\ cookieStore = ValidToken(PageUser)

NextPage ==
    \/ \E t \in Toggles, assetSymbol \in Symbols :
           toggleWatchlist(t, assetSymbol)
    \/ \E t \in Toggles, h \in Handlers : FetchSend(t, h)
    \/ \E t \in Toggles : FetchResolve(t)
    \/ \E t \in Toggles : FetchReject(t)
    \/ CookieExpires
    \/ \E h \in Handlers : WatchlistStep(h)

SpecPage == InitPage /\ [][NextPage]_vars

TypeOK ==
    /\ entry \in {"calculateATR", "calculateSupertrend",
                  "calculateSupertrendForTimeframes", "validateOHLCData",
                  "none"}
    /\ IF entry = "validateOHLCData" /\ pc = "done"
       THEN returnValue \in BOOLEAN
       ELSE returnValue = undefined
    /\ pc \in {"call", "st_loop", "tf_loop", "done"}
    /\ error \in {"none", "Insufficient data for ATR calculation",
                  "Insufficient data for Supertrend calculation"}
    /\ Len(ohlcData) <= MaxLen \/ Len(ohlcData) <= MaxBars
       \/ Len(ohlcData) \in {10, 11, 30}
    /\ timeframeIndex \in 0..Len(Timeframes)
    /\ result = undefined \/ DOMAIN result \subseteq
                                {Timeframes[k] : k \in 1..Len(Timeframes)}
    /\ \A k \in 1..Len(results) : results[k].direction \in {"up", "down"}
                               /\ results[k].signal \in {"buy", "sell", "hold"}

(***************************************************************************)
(* Vocabulary of the properties.  Result k (1-based) belongs to the input  *)
(* bar with 0-based index atrPeriod - 1 + (k - 1).                         *)
(***************************************************************************)
ResultBar(k) == ohlcData[atrPeriod - 1 + k]
ResultPrevBar(k) == ohlcData[atrPeriod - 2 + k]
ResultClose(k) == R(ResultBar(k).close)
ResultPrevClose(k) == R(ResultPrevBar(k).close)
ResultHL2(k) == RDiv(RAdd(R(ResultBar(k).high), R(ResultBar(k).low)), R(2))
ResultBasicUpper(k) == RAdd(ResultHL2(k), RMul(R(factor), atrValues[k]))
ResultBasicLower(k) == RSub(ResultHL2(k), RMul(R(factor), atrValues[k]))

\* The final bands of section 4.3 of the specification for results 1..n,
\* computed from the basic bands and the closes alone: bands[k] is the pair
\* <<final upper, final lower>> of result k.
RECURSIVE RatchetBands(_, _)
RatchetBands(n, bands) ==
    IF Len(bands) >= n THEN bands
    ELSE LET k == Len(bands) + 1
             bu == ResultBasicUpper(k)
             bl == ResultBasicLower(k)
         IN  IF k = 1 THEN RatchetBands(n, <<<<bu, bl>>>>)
             ELSE LET pu == bands[k - 1][1]
                      pl == bands[k - 1][2]
                      c == ResultPrevClose(k)
                      fu == IF RLt(bu, pu) \/ RGt(c, pu) THEN bu ELSE pu
                      fl == IF RGt(bl, pl) \/ RLt(c, pl) THEN bl ELSE pl
                  IN  RatchetBands(n, Append(bands, <<fu, fl>>))

\* The call has returned normally: results / atrValues are the output.
Returned == pc = "done" /\ error = "none"

ValidBar(b) ==
    /\ b.low <= b.open /\ b.open <= b.high
    /\ b.low <= b.close /\ b.close <= b.high
    /\ b.volume >= 0

AllBarsValid == \A j \in 1..Len(ohlcData) : ValidBar(ohlcData[j])

\* C1: every result after the first stores as final upper band the current
\* basic upper band if that is below the previous result's final upper band
\* or the previous close is above it, and the previous final upper band
\* otherwise; symmetrically for the lower band; the bands compared against
\* are the previous FINAL (ratcheted) bands.
C1_FinalBandRecurrence ==
    Returned =>
    /\ \A k \in 2..Len(results) :
        LET bu == ResultBasicUpper(k)
            bl == ResultBasicLower(k)
            pu == results[k - 1].basicUpperBand
            pl == results[k - 1].basicLowerBand
            c == ResultPrevClose(k)
        IN  /\ results[k].basicUpperBand =
                 IF RLt(bu, pu) \/ RGt(c, pu) THEN bu ELSE pu
            /\ results[k].basicLowerBand =
                 IF RGt(bl, pl) \/ RLt(c, pl) THEN bl ELSE pl
    /\ Len(results) >= 1 =>
        LET bands == RatchetBands(Len(results), <<>>)
        IN  \A k \in 1..Len(results) :
                /\ results[k].basicUpperBand = bands[k][1]
                /\ results[k].basicLowerBand = bands[k][2]

\* A third result whose upper band was carried over from a second result
\* that had itself carried it over: final and basic bands differ on both.
C1_Witness ==
    /\ AllBarsValid
    /\ pc = "done"
    /\ Len(results) >= 3
    /\ results[2].basicUpperBand # ResultBasicUpper(2)
    /\ results[3].basicUpperBand = results[2].basicUpperBand
    /\ results[3].basicUpperBand # ResultBasicUpper(3)
    /\ results[3].basicLowerBand = ResultBasicLower(3)
    /\ results[3].basicLowerBand # results[2].basicLowerBand

\* C2: for every result after the first, (direction, value, signal) follows
\* from the previous direction d and the close: up and close > finalLower
\* gives (up, finalLower, hold); up and close <= finalLower gives (down,
\* finalUpper, sell); down and close < finalUpper gives (down, finalUpper,
\* hold); down and close >= finalUpper gives (up, finalLower, buy).
C2_DirectionTransition ==
    Returned =>
    \A k \in 2..Len(results) :
        LET d == results[k - 1].direction
            fu == results[k].basicUpperBand
            fl == results[k].basicLowerBand
            c == ResultClose(k)
            triple == <<results[k].direction, results[k].value, results[k].signal>>
        IN  /\ (d = "up" /\ RGt(c, fl)) => triple = <<"up", fl, "hold">>
            /\ (d = "up" /\ RLe(c, fl)) => triple = <<"down", fu, "sell">>
            /\ (d = "down" /\ RLt(c, fu)) => triple = <<"down", fu, "hold">>
            /\ (d = "down" /\ RGe(c, fu)) => triple = <<"up", fl, "buy">>

\* A sell on a close exactly on the lower band, followed by a buy.
C2_Witness ==
    /\ AllBarsValid
    /\ Returned
    /\ Len(results) >= 3
    /\ results[1].direction = "up"
    /\ results[2].signal = "sell"
    /\ ResultClose(2) = results[2].basicLowerBand
    /\ results[3].signal = "buy"

\* C3: a result carries buy or sell only if its direction differs from the
\* direction of the result just before it; the first result carries hold.
C3_SignalOnlyOnFlip ==
    Returned =>
    \A k \in 1..Len(results) :
        results[k].signal \in {"buy", "sell"} =>
            /\ k > 1
            /\ results[k].direction # results[k - 1].direction

\* Both kinds of result occur: a flip with its signal and a stay with hold.
C3_Witness ==
    /\ AllBarsValid
    /\ Returned
    /\ Len(results) >= 3
    /\ results[2].direction # results[1].direction
    /\ results[2].signal = "buy"
    /\ results[3].direction = results[2].direction
    /\ results[3].signal = "hold"

C5_SupertrendLength ==
    (pc = "done" /\ entry = "calculateSupertrend") =>
        IF Len(ohlcData) >= atrPeriod + 1
        THEN /\ error = "none"
             /\ Len(results) = Len(ohlcData) - atrPeriod + 1
        ELSE /\ error = "Insufficient data for Supertrend calculation"
             /\ results = <<>>

\* The smallest accepted input: period + 1 bars, two results.
C5_Witness ==
    /\ pc = "done"
    /\ entry = "calculateSupertrend"
    /\ Len(ohlcData) = atrPeriod + 1
    /\ error = "none"
    /\ Len(results) = 2

\* C6: the first result has final bands equal to its basic bands, direction
\* down if close <= finalLower and up otherwise, value finalLower when up
\* and finalUpper when down, and signal hold.
C6_FirstResult ==
    (Returned /\ Len(results) >= 1) =>
        LET r == results[1]
        IN  /\ r.basicUpperBand = ResultBasicUpper(1)
            /\ r.basicLowerBand = ResultBasicLower(1)
            /\ r.direction = IF RLe(ResultClose(1), r.basicLowerBand)
                             THEN "down" ELSE "up"
            /\ r.value = IF r.direction = "up" THEN r.basicLowerBand
                         ELSE r.basicUpperBand
            /\ r.signal = "hold"

\* A first result that is down because the close sits exactly on the band.
C6_Witness ==
    /\ AllBarsValid
    /\ Returned
    /\ Len(results) >= 1
    /\ ResultClose(1) = results[1].basicLowerBand
    /\ results[1].direction = "down"
    /\ results[1].value = results[1].basicUpperBand

\* The true range of section 4.1 for the input bar with 1-based index j.
MaxOf(S) == CHOOSE x \in S : \A y \in S : RLe(y, x)

BarTrueRange(j) ==
    LET b == ohlcData[j]
    IN  IF j = 1 THEN R(b.high - b.low)
        ELSE LET c == ohlcData[j - 1].close
             IN  MaxOf({R(b.high - b.low), R(IAbs(b.high - c)), R(IAbs(b.low - c))})

RECURSIVE TrueRangeTotal(_)
TrueRangeTotal(j) == IF j = 0 THEN R(0) ELSE RAdd(TrueRangeTotal(j - 1), BarTrueRange(j))

\* C7: the first ATR value is the mean of the true ranges of the first
\* `period` bars; each later value k is (ATR[k-1] * (period - 1) + true
\* range of input bar period-1+k) / period; the atr field of the result for
\* input bar i is the ATR value whose last true range is that of bar i.
C7_ATRRecurrence ==
    Returned =>
    /\ \A k \in 1..Len(atrValues) :
            atrValues[k] =
                IF k = 1
                THEN RDiv(TrueRangeTotal(atrPeriod), R(atrPeriod))
                ELSE RDiv(RAdd(RMul(atrValues[k - 1], R(atrPeriod - 1)),
                               BarTrueRange(atrPeriod - 1 + k)),
                          R(atrPeriod))
    /\ \A k \in 1..Len(results) : results[k].atr = atrValues[k]

\* A smoothed value that differs from the seed, carried by a result.
C7_Witness ==
    /\ AllBarsValid
    /\ pc = "done"
    /\ atrPeriod >= 2
    /\ Len(results) >= 2
    /\ results[2].atr # results[1].atr
    /\ results[2].atr # BarTrueRange(atrPeriod + 1)
    /\ results[1].atr.n > 0

\* C8: calculateATR with period p on n bars throws the insufficient-data
\* error iff n < p and otherwise returns n - p + 1 values.
C8_ATRLength ==
    (pc = "done" /\ entry = "calculateATR") =>
        /\ (error # "none") <=> (Len(ohlcData) < atrPeriod)
        /\ error # "none" => error = "Insufficient data for ATR calculation"
        /\ error = "none" => Len(atrValues) = Len(ohlcData) - atrPeriod + 1

\* Exactly `period` bars: accepted, one value.
C8_Witness ==
    /\ pc = "done"
    /\ entry = "calculateATR"
    /\ Len(ohlcData) = atrPeriod
    /\ atrPeriod >= 2
    /\ error = "none"
    /\ Len(atrValues) = 1

\* C9: the true range of bar 0 is high - low; of any later bar it is
\* max(high - low, |high - previousClose|, |low - previousClose|) with the
\* close of the bar just before it in the same sequence.
C9_TrueRange ==
    Returned =>
    \A j \in 1..Len(trueRanges) : trueRanges[j] = BarTrueRange(j)

\* A valid bar whose true range comes from the gap to the previous close.
C9_Witness ==
    /\ AllBarsValid
    /\ Returned
    /\ \E j \in 2..Len(trueRanges) :
        /\ RGt(trueRanges[j], R(ohlcData[j].high - ohlcData[j].low))
        /\ ohlcData[j - 1].close > ohlcData[j].high

AllHighGeLow == \A j \in 1..Len(ohlcData) : ohlcData[j].high >= ohlcData[j].low

\* C10: when every bar has high >= low, every true range and every ATR
\* value is >= 0.
C10_NonNegative ==
    (Returned /\ AllHighGeLow) =>
        /\ \A j \in 1..Len(trueRanges) : RGe(trueRanges[j], R(0))
        /\ \A k \in 1..Len(atrValues) : RGe(atrValues[k], R(0))

\* A finished ATR run over bars with high >= low, with a smoothed value.
C10_Witness ==
    /\ AllHighGeLow
    /\ pc = "done"
    /\ entry = "calculateATR"
    /\ Len(atrValues) >= 2
    /\ \E j \in 1..Len(ohlcData) : ohlcData[j].high > ohlcData[j].low
    /\ \E j \in 1..Len(ohlcData) : ohlcData[j].close > ohlcData[j].high
    /\ RGt(atrValues[Len(atrValues)], R(0))

(***************************************************************************)
(* Vocabulary of the orchestrator's properties (section 4.4).              *)
(***************************************************************************)
Labels == {"45M", "2H", "4H", "1D", "3D", "1W"}

\* The call of calculateSupertrendForTimeframes has returned.
TimeframesReturned ==
    entry = "calculateSupertrendForTimeframes" /\ pc = "done"

\* The last min(windowLength, n) bars of the master sequence.
WindowSlice(t) ==
    LET n == Len(ohlcData)
        w == dataLength(t, n)
    IN  [j \in 1..w |-> ohlcData[n - w + j]]

\* The timeframe's windowed slice has at least period + 1 bars.
WindowSuffices(t) == Len(WindowSlice(t)) >= configs[t].atrPeriod + 1

\* The last element of calculateSupertrend over the timeframe's slice.
LatestOverSlice(t) ==
    LET out == calculateSupertrend(WindowSlice(t), configs[t]).results
    IN  out[Len(out)]

\* C11: for each timeframe, independently of the others and of any other
\* threshold, whenever the last min(windowLength, n) bars are at least
\* period + 1 bars, the timeframe's entry is the last element of
\* calculateSupertrend over that slice; it is not absent.
C11_EntryWheneverSliceSuffices ==
    TimeframesReturned =>
        \A t \in Labels :
            WindowSuffices(t) =>
                /\ t \in DOMAIN result
                /\ result[t] # null
                /\ result[t] = LatestOverSlice(t)

\* C12: for any master sequence, the empty one included, every timeframe
\* whose windowed slice has fewer than period + 1 bars has a null entry, the
\* call raises no Error, and the result has all six labels as keys.
C12_AbsencePolicy ==
    entry = "calculateSupertrendForTimeframes" =>
        /\ error = "none"
        /\ pc = "done" =>
            /\ DOMAIN result = Labels
            /\ \A t \in Labels : ~WindowSuffices(t) => result[t] = null

\* Fifteen bars: the weekly timeframe needs sixteen and is absent, the
\* 3-day timeframe needs fifteen and is present.
C12_Witness ==
    /\ TimeframesReturned
    /\ Len(ohlcData) = 15
    /\ ~WindowSuffices("1W") /\ result["1W"] = null
    /\ WindowSuffices("3D") /\ result["3D"] # null

\* The entry of timeframe t computed on its own from the master sequence.
EntryAlone(t) ==
    IF TooFewBars(Len(ohlcData)) \/ ~WindowSuffices(t)
    THEN null
    ELSE LatestOverSlice(t)

ExampleReturned ==
    /\ Returned
    /\ ohlcData = ExampleSeries
    /\ atrPeriod = 10
    /\ factor = 3

\* C15 as stated: in the first example the result for the 11th bar (the
\* second result) has direction up and signal buy.
C15_ExampleFlipsToUp ==
    ExampleReturned =>
        /\ results[2].direction = "up"
        /\ results[2].signal = "buy"

\* C15: in the first example there are two results; the result for the
\* 10th bar already has direction up (close 10 above the final lower band
\* 9.4), and the result for the 11th bar has direction up and signal hold,
\* with ATR 0.29, final lower band 10.13 and final upper band 10.6.
C15_ExampleStaysUp ==
    ExampleReturned =>
        /\ Len(results) = 2
        /\ results[1].direction = "up"
        /\ results[1].signal = "hold"
        /\ results[1].basicLowerBand = Norm(94, 1)
        /\ results[2].direction = "up"
        /\ results[2].signal = "hold"
        /\ results[2].atr = Norm(29, 10)
        /\ results[2].basicLowerBand = Norm(1013, 10)
        /\ results[2].basicUpperBand = Norm(106, 1)
        /\ results[2].value = results[2].basicLowerBand

\* The first example has returned, with the close of the 11th bar above
\* the final upper band.
C15_Witness ==
    /\ ExampleReturned
    /\ Len(results) = 2
    /\ RGt(R(ohlcData[11].close), results[2].basicUpperBand)

\* The closes are strictly increasing.
ClosesRise ==
    \A j \in 2..Len(ohlcData) : ohlcData[j - 1].close < ohlcData[j].close

\* No bar's close lies below its midpoint (high + low) / 2.
ClosesAtOrAboveMidpoint ==
    \A j \in 1..Len(ohlcData) :
        2 * ohlcData[j].close >= ohlcData[j].high + ohlcData[j].low

\* The call is one of the second example: 30 valid bars with strictly
\* increasing closes, period 10, factor 3.
RisingReturned ==
    /\ Returned
    /\ Len(ohlcData) = 30
    /\ AllBarsValid
    /\ ClosesRise
    /\ atrPeriod = 10
    /\ factor = 3

C17_InvalidBarRejected ==
    (entry = "calculateSupertrend" /\ ~AllBarsValid) =>
        /\ results = <<>>
        /\ pc = "done" => error # "none"

\* The band the state machine compares the close of result k with: the
\* final lower band after up, the final upper band after down.
ComparedBand(k) ==
    IF results[k - 1].direction = "up"
    THEN results[k].basicLowerBand
    ELSE results[k].basicUpperBand

\* Exactly one of the four cases of the state machine applies to result k.
OneOfFourCases(k) ==
    LET d == results[k - 1].direction
        close == ResultClose(k)
        fu == results[k].basicUpperBand
        fl == results[k].basicLowerBand
        cases == <<d = "up" /\ RGt(close, fl), d = "up" /\ RLe(close, fl),
                   d = "down" /\ RLt(close, fu), d = "down" /\ RGe(close, fu)>>
    IN  Cardinality({c \in 1..4 : cases[c]}) = 1

\* A change of direction at result k carries buy or sell.
FlipIsSignalled(k) ==
    results[k].direction # results[k - 1].direction =>
        results[k].signal \in {"buy", "sell"}

\* C18 as stated: for every finite-valued bar sequence, exactly one of the
\* four cases applies to every result after the first, and every change of
\* direction between consecutive results carries buy or sell.
C18_FallbackUnreachable ==
    Returned =>
        \A k \in 2..Len(results) : OneOfFourCases(k) /\ FlipIsSignalled(k)

\* C18: for every result after the first whose compared band is not NaN,
\* exactly one of the four cases applies and a change of direction carries
\* buy or sell; when the compared band is NaN none of the four applies and
\* the result is the fallback's: direction from close against hl2, hold.
C18_FallbackOnlyOnNaN ==
    Returned =>
        \A k \in 2..Len(results) :
            IF ~IsNaN(ComparedBand(k))
            THEN OneOfFourCases(k) /\ FlipIsSignalled(k)
            ELSE /\ ~OneOfFourCases(k)
                 /\ results[k].signal = "hold"
                 /\ results[k].direction =
                        IF RGt(ResultClose(k), ResultHL2(k)) THEN "up"
                        ELSE "down"

\* A returned run with a change of direction against a band that is a
\* number, in which an intermediate value has overflowed.
C18_Witness ==
    /\ Returned
    /\ \E k \in 2..Len(results) :
        /\ ~IsNaN(ComparedBand(k))
        /\ results[k].direction # results[k - 1].direction
        /\ results[k].signal \in {"buy", "sell"}
    /\ \E k \in 1..Len(results) : ~IsFinite(results[k].atr)

\* C19: in every result, value is the result's stored final lower band when
\* the direction is up and its stored final upper band when it is down.
C19_ValueIsActiveBand ==
    Returned =>
        \A k \in 1..Len(results) :
            results[k].value =
                IF results[k].direction = "up"
                THEN results[k].basicLowerBand
                ELSE results[k].basicUpperBand

\* A returned run with an up result and a down result whose two bands
\* differ.
C19_Witness ==
    /\ Returned
    /\ \E k \in 1..Len(results) :
        /\ results[k].direction = "up"
        /\ results[k].basicLowerBand # results[k].basicUpperBand
    /\ \E k \in 1..Len(results) :
        /\ results[k].direction = "down"
        /\ results[k].basicLowerBand # results[k].basicUpperBand

\* calculateSupertrend on the first m bars of the input.
OnFirstBars(m) ==
    calculateSupertrend(SubSeq(ohlcData, 1, m),
                        [atrPeriod |-> atrPeriod, factor |-> R(factor)])

\* C20: for every m with period + 1 <= m <= n, calculateSupertrend on the
\* first m bars returns the first m - period + 1 results of the run on all
\* n bars.
C20_NoLookahead ==
    Returned =>
        \A m \in (atrPeriod + 1)..Len(ohlcData) :
            /\ OnFirstBars(m).error = "none"
            /\ OnFirstBars(m).results = SubSeq(results, 1, m - atrPeriod + 1)

\* A returned run with bars beyond a proper prefix, the last of which
\* differs from the bar before it and changes the direction, all values
\* being finite.
C20_Witness ==
    /\ Returned
    /\ Len(ohlcData) > atrPeriod + 1
    /\ ohlcData[Len(ohlcData)] # ohlcData[Len(ohlcData) - 1]
    /\ results[Len(results)].direction # results[Len(results) - 1].direction
    /\ \A k \in 1..Len(results) :
        IsFinite(results[k].atr) /\ IsFinite(results[k].value)

(***************************************************************************)
(* The input sequence, the validator, the timeframe thresholds, the side   *)
(* of the close.                                                           *)
(***************************************************************************)
\* C21: no step of calculateATR, calculateSupertrend or
\* calculateSupertrendForTimeframes (with getLatestSupertrendSignal inside
\* it), returning or throwing, changes the input bar sequence: its length
\* and every field of every bar stay as they were.
C21_InputUnchanged == [][ohlcData' = ohlcData]_vars

\* The orchestrator has returned after taking a window shorter than the
\* master sequence and computing every timeframe from its slice.
C21_Witness ==
    /\ TimeframesReturned
    /\ Len(ohlcData) > 20
    /\ \A t \in Labels : result[t] # null


\* C22: validateOHLCData returns true iff every bar of the array satisfies
\* low <= open <= high, low <= close <= high and volume >= 0; it is true
\* for the empty array and false as soon as one bar breaks one of these.
C22_ValidatorMatchesDataModel ==
    (entry = "validateOHLCData" /\ pc = "done") =>
        /\ returnValue \in BOOLEAN
        /\ returnValue = AllBarsValid
        /\ (ohlcData = <<>> => returnValue = TRUE)
        /\ ((\E j \in 1..Len(ohlcData) : ~ValidBar(ohlcData[j]))
                => returnValue = FALSE)

\* An array of several bars, only the last of which breaks the data model
\* (open above high), has been rejected.
C22_Witness ==
    /\ entry = "validateOHLCData" /\ pc = "done"
    /\ returnValue = FALSE
    /\ Len(ohlcData) >= 2
    /\ \A j \in 1..(Len(ohlcData) - 1) : ValidBar(ohlcData[j])
    /\ LET b == ohlcData[Len(ohlcData)]
       IN  b.open > b.high /\ b.low <= b.close /\ b.close <= b.high
           /\ b.volume >= 0

\* The periods of the built-in timeframe table.
TablePeriod(t) ==
    CASE t = "45M" -> 7 [] t = "2H" -> 8 [] t = "4H" -> 10
      [] t = "1D" -> 12 [] t = "3D" -> 14 [] t = "1W" -> 15

\* The timeframes whose entry is not null.
PresentLabels == {t \in Labels : result[t] # null}

\* C23: with the built-in table, the entry of timeframe T is non-null iff
\* the master sequence has at least max(15, period_T + 1) bars: all six
\* are null below 15 bars, only 1W is null at 15, none is null from 16 on.
C23_PresenceThreshold ==
    TimeframesReturned =>
        LET n == Len(ohlcData)
        IN  /\ \A t \in Labels : configs[t].atrPeriod = TablePeriod(t)
            /\ \A t \in Labels :
                 (result[t] # null) <=>
                     (n >= 15 /\ n >= TablePeriod(t) + 1)
            /\ (n < 15 => PresentLabels = {})
            /\ (n = 15 => PresentLabels = Labels \ {"1W"})
            /\ (n >= 16 => PresentLabels = Labels)

\* Fourteen bars suffice for the periods up to 12, yet all six are null.
C23_Witness ==
    /\ TimeframesReturned
    /\ Len(ohlcData) = 14
    /\ Len(ohlcData) >= TablePeriod("1D") + 1
    /\ PresentLabels = {}

\* Result k with signal hold has its value on the far side of the close:
\* strictly so, except that a first result that is down may touch it.
HoldOnFarSide(k) ==
    LET r == results[k]
        c == ResultClose(k)
    IN  r.signal = "hold" =>
            /\ r.direction = "up" => RGt(c, r.value)
            /\ r.direction = "down" =>
                   IF k = 1 THEN RLe(c, r.value) ELSE RLt(c, r.value)

\* C24: for valid bars, period >= 1 and factor >= 0, every result with
\* signal hold has close > value when up, and close < value when down
\* (close <= value for the first result).
C24_HoldOnFarSide ==
    (Returned /\ entry = "calculateSupertrend" /\ AllBarsValid
       /\ atrPeriod >= 1 /\ RGe(R(factor), R(0))) =>
        \A k \in 1..Len(results) : HoldOnFarSide(k)

\* The band the close of result k is tested against is a number: the final
\* lower band for the first result, the band of the previous direction for
\* the later ones.
TestedBandIsNumber(k) ==
    IF k = 1 THEN ~IsNaN(results[1].basicLowerBand)
    ELSE ~IsNaN(ComparedBand(k))

\* C24 (amended): for valid bars, period >= 1 and factor >= 0, every result
\* with signal hold whose tested band is a number has close > value when up,
\* and close < value when down (close <= value for the first result).
C24_HoldOnFarSideOfNumber ==
    (Returned /\ entry = "calculateSupertrend" /\ AllBarsValid
       /\ atrPeriod >= 1 /\ RGe(R(factor), R(0))) =>
        \A k \in 1..Len(results) :
            TestedBandIsNumber(k) => HoldOnFarSide(k)

\* A down trend held on a later result whose value overflowed to Infinity:
\* the tested band is a number and the close is strictly below the value.
C24_Witness ==
    /\ Returned /\ entry = "calculateSupertrend" /\ AllBarsValid
    /\ \E k \in 2..Len(results) :
        /\ TestedBandIsNumber(k)
        /\ results[k].signal = "hold"
        /\ results[k].direction = "down"
        /\ RLt(ResultClose(k), results[k].value)
        /\ ~IsFinite(results[k].value)

(***************************************************************************)
(* Vocabulary of the watchlist route's properties.                         *)
(***************************************************************************)
\* The symbol is in the user's stored watchlist.
Stored(u, x) == includes(watchlistsFile[u], x)

\* Handler h answers in this step.
Answers(h) == requests[h].pc # "idle" /\ requests'[h].pc = "idle"

\* Handler h is writing the store for an authenticated request.
Writes(h, method, u, x) ==
    /\ requests[h].pc = "write"
    /\ requests[h].method = method
    /\ requests[h].userId = u
    /\ requests[h].symbol = x

\* C25: under any interleaving of concurrent authenticated POST and DELETE
\* requests the store reflects every request's change: a stored symbol
\* (added by a completed POST) leaves the store only by a DELETE of that
\* symbol for that user, never as a side effect of another request.
C25_NoLostUpdate ==
    [][\A u \in Users, x \in Symbols :
          (Stored(u, x) /\ ~includes(watchlistsFile'[u], x)) =>
              \E h \in Handlers : Writes(h, "DELETE", u, x) /\ Answers(h)]_vars

\* The list holds no symbol twice.
NoDuplicates(list) == \A a, b \in 1..Len(list) : list[a] = list[b] => a = b

\* Handler h answers an authenticated POST or DELETE of symbol x for user u
\* with status 200 in this step.
Completes(h, method, u, x) ==
    /\ Answers(h)
    /\ requests[h].pc \in {"read", "write"}
    /\ requests[h].method = method
    /\ requests[h].userId = u
    /\ requests[h].symbol = x
    /\ response'.status = 200

\* C26: with sequential requests and a store without duplicates, no user's
\* list ever holds a symbol twice; a POST of a stored symbol and a DELETE of
\* a symbol not stored leave the store unchanged; after POST(s) the user's
\* list contains s, after DELETE(s) it does not; no other user's list
\* changes.
C26_SetSemantics ==
    /\ [](\A u \in Users : NoDuplicates(watchlistsFile[u]))
    /\ [][\A h \in Handlers, u \in Users, x \in Symbols :
            /\ Completes(h, "POST", u, x) =>
                 /\ includes(watchlistsFile'[u], x)
                 /\ Stored(u, x) => watchlistsFile' = watchlistsFile
            /\ Completes(h, "DELETE", u, x) =>
                 /\ ~includes(watchlistsFile'[u], x)
                 /\ ~Stored(u, x) => watchlistsFile' = watchlistsFile
            /\ (Completes(h, "POST", u, x) \/ Completes(h, "DELETE", u, x)) =>
                 \A other \in Users \ {u} :
                     watchlistsFile'[other] = watchlistsFile[other]]_vars

\* A POST has just been answered with the user's list, which now holds two
\* symbols, while the other user's list is empty.
C26_Witness ==
    /\ AllIdle
    /\ response.status = 200
    /\ \E u \in Users :
        /\ Len(watchlistsFile[u]) = 2
        /\ response.body = watchlistsFile[u]
        /\ \A other \in Users \ {u} : watchlistsFile[other] = <<>>

\* Handler h holds a watchlist request whose token is missing or fails
\* verification.
Unauthenticated(h) ==
    /\ requests[h].pc # "idle"
    /\ requests[h].route = "watchlist"
    /\ requests[h].token \in {NoToken, BadToken}

\* Handler h holds an authenticated POST or DELETE without a symbol.
SymbolMissing(h) ==
    /\ requests[h].pc # "idle"
    /\ requests[h].route = "watchlist"
    /\ requests[h].token \notin {NoToken, BadToken}
    /\ requests[h].method \in {"POST", "DELETE"}
    /\ requests[h].symbol = ""

\* C27: a watchlist request without a token or with a token that fails
\* verification is answered 401, an authenticated POST or DELETE without a
\* symbol is answered 400, and neither touches the store: such a request
\* never gets as far as reading the file, and the step that answers it
\* leaves every watchlist unchanged.
C27_RejectedLeavesStore ==
    /\ [](\A h \in Handlers :
            (Unauthenticated(h) \/ SymbolMissing(h)) => requests[h].pc = "auth")
    /\ [][\A h \in Handlers :
            /\ (Unauthenticated(h) /\ requests'[h] # requests[h]) =>
                 /\ Answers(h)
                 /\ response'.status = 401
                 /\ watchlistsFile' = watchlistsFile
            /\ (SymbolMissing(h) /\ requests'[h] # requests[h]) =>
                 /\ Answers(h)
                 /\ response'.status = 400
                 /\ watchlistsFile' = watchlistsFile
            /\ (Answers(h) /\ response'.status \in {400, 401}) =>
                 watchlistsFile' = watchlistsFile]_vars

\* A request has just been refused with 401 while the store holds symbols
\* for both users.
C27_Witness ==
    /\ AllIdle
    /\ response = Reply(401, "Unauthorized", <<>>)
    /\ \A u \in Users : Len(watchlistsFile[u]) >= 1

\* Every toggleWatchlist call has settled and every request is answered.
AllSettled == AllIdle /\ \A t \in Toggles : toggles[t].pc = "idle"

\* C28: once every toggleWatchlist call has settled, the page's list
\* contains a symbol iff the stored list of the user does.
C28_PageMatchesStore ==
    AllSettled =>
        \A x \in Symbols : includes(watchlist, x) <=> Stored(PageUser, x)

(***************************************************************************)
(* Vocabulary of the properties of registration and login.                 *)
(***************************************************************************)
\* No two stored users share an email or an id.
UniqueUsers ==
    \A a, b \in 1..Len(usersFile) :
        (usersFile[a].email = usersFile[b].email
           \/ usersFile[a].id = usersFile[b].id) => a = b

\* Handler h holds a request of the route.
Serving(h, route) == requests[h].pc # "idle" /\ requests[h].route = route

\* The request of handler h lacks its email or its password.
FieldMissing(h) == requests[h].email = "" \/ requests[h].password = ""

\* The email of handler h's request is stored.
EmailStored(h) ==
    \E k \in 1..Len(usersFile) : usersFile[k].email = requests[h].email

\* C29: whatever the sequence or interleaving of register requests, no two
\* stored users share an email or an id; a request whose email is stored
\* when the handler reads the store is answered 409, a request without
\* email or password is answered 400, and both leave the store unchanged.
C29_UniqueUsersKept ==
    /\ []UniqueUsers
    /\ [][\A h \in Handlers :
            Serving(h, "register") =>
              /\ (requests[h].pc = "parse" /\ FieldMissing(h)
                    /\ requests'[h] # requests[h]) =>
                   /\ Answers(h)
                   /\ response'.status = 400
              /\ (requests[h].pc = "read" /\ EmailStored(h)
                    /\ requests'[h] # requests[h]) =>
                   /\ Answers(h)
                   /\ response'.status = 409
              /\ (Answers(h) /\ response'.status \in {400, 409}) =>
                   usersFile' = usersFile]_vars

\* Two users are stored and a further registration has just been refused
\* with 409.
C29_Witness ==
    /\ AllIdle
    /\ Len(usersFile) = 2
    /\ response = Reply(409, "User already exists", <<>>)

\* The stored users whose email and password are those of handler h's
\* request.
Matching(h) ==
    {k \in 1..Len(usersFile) :
        /\ usersFile[k].email = requests[h].email
        /\ usersFile[k].password = bcryptHash(requests[h].password)}

====
